---- MODULE Spec2Model ----
(***************************************************************************)
(* Model of babyai/levels/verifier2.py: object descriptions (ObjDesc),     *)
(* the leaf instructions GoTo, Open, Pickup, PutNext and the composite     *)
(* instructions Then, After, Both, driven by one episode of a grid world.  *)
(*                                                                         *)
(* The grid world (gym_minigrid) is an external collaborator.  The model   *)
(* keeps exactly the parts of it that the verifier reads: the grid of      *)
(* cells, each door's is_open flag, the episode-start position and         *)
(* direction, the agent's current position and direction (front_pos is     *)
(* derived from them) and the carried object.                              *)
(***************************************************************************)
EXTENDS Integers, Sequences, FiniteSets, TLC

\* ------------------------------------------------------------------ bounds
GridW == 3
GridH == 3
MaxSteps == 3

\* --------------------------------------------------------------- constants
NoneVal == "None"

OBJ_TYPES == {"box", "ball", "key", "door"}

LOC_NAMES == {"left", "right", "front", "behind"}

COLOR_NAMES == {"red", "green", "blue", "purple", "yellow", "grey"}

\* gym_minigrid's DIR_TO_VEC, directions 0..3 (right, down, left, up)
DIR_TO_VEC == [d \in 0..3 |->
                 CASE d = 0 -> <<1, 0>>
                   [] d = 1 -> <<0, 1>>
                   [] d = 2 -> <<-1, 0>>
                   [] OTHER -> <<0, -1>>]

dot_product(v1, v2) == v1[1] * v2[1] + v1[2] * v2[2]

\* ------------------------------------------------------------------- world
Cells == (0..(GridW - 1)) \X (0..(GridH - 1))

\* The objects of the world, by identity (index).  Objects 3 and 4 have the
\* same type and color and differ only by identity.
Objs == << [type |-> "door",        color |-> "red"],
           [type |-> "locked_door", color |-> "red"],
           [type |-> "ball",        color |-> "blue"],
           [type |-> "ball",        color |-> "blue"] >>

ObjIds == 1..Len(Objs)

\* Episode-start layout; 0 is an empty cell (env.grid.get returns None)
StartGrid == [c \in Cells |->
                CASE c = <<2, 1>> -> 1
                  [] c = <<0, 2>> -> 2
                  [] c = <<0, 0>> -> 3
                  [] c = <<1, 2>> -> 4
                  [] OTHER -> 0]

FrontPos(e) == << e.agent_pos[1] + DIR_TO_VEC[e.agent_dir][1],
                  e.agent_pos[2] + DIR_TO_VEC[e.agent_dir][2] >>

\* ------------------------------------------------------------ descriptions
\* A Python string is a value and an object.  `x is 'door'` compares objects:
\* it holds when x is the interned literal (lit = TRUE) and fails for an equal
\* string built at run time (lit = FALSE).  `==`, `!=` and `in` compare values.
Is(type, lit, literal) == lit /\ type = literal

\* ObjDesc.__init__: the description, or the error its assertions raise.
\* self.type is the argument itself, or the literal 'door' after normalisation
ObjDescInit(type, lit, color, loc) ==
    LET norm == Is(type, lit, "locked_door")
        t == IF norm THEN "door" ELSE type
        l == IF norm THEN TRUE ELSE lit
    IN  [err |-> IF t \notin OBJ_TYPES
                    \/ color \notin ({NoneVal} \cup COLOR_NAMES)
                    \/ loc \notin ({NoneVal} \cup LOC_NAMES)
                 THEN "AssertionError" ELSE "",
         type |-> t, lit |-> l, color |-> color, loc |-> loc]

\* Mutant of PosMatches: "left" by a non-strict comparison
PosMatchesNonStrict(loc, v, d1, d2) ==
    CASE loc = "left"   -> dot_product(v, d2) <= 0
      [] loc = "right"  -> dot_product(v, d2) > 0
      [] loc = "front"  -> dot_product(v, d1) > 0
      [] loc = "behind" -> dot_product(v, d1) < 0

\* The dictionary pos_matches of find_matching_objs, at key loc
PosMatches(loc, v, d1, d2) ==
    CASE loc = "left"   -> dot_product(v, d2) < 0
      [] loc = "right"  -> dot_product(v, d2) > 0
      [] loc = "front"  -> dot_product(v, d1) > 0
      [] loc = "behind" -> dot_product(v, d1) < 0

\* Mutant of CellMatches: the direction to the object is taken from the
\* agent's current position instead of the episode-start position
CellMatchesFromAgentPos(desc, e, i, j) ==
    LET cell == e.grid[<<i, j>>]
    IN  /\ cell # 0
        /\ LET type == IF Objs[cell].type = "locked_door" THEN "door"
                       ELSE Objs[cell].type
               v  == <<i - e.agent_pos[1], j - e.agent_pos[2]>>
               d1 == DIR_TO_VEC[e.start_dir]
               d2 == <<-d1[2], d1[1]>>
           IN  /\ ~(desc.type # NoneVal /\ type # desc.type)
               /\ ~(desc.color # NoneVal /\ Objs[cell].color # desc.color)
               /\ (desc.loc \in {"left", "right", "front", "behind"}
                     => PosMatches(desc.loc, v, d1, d2))

\* The body of the double loop of find_matching_objs for cell (i, j):
\* TRUE when the cell is appended to obj_set / obj_poss
CellMatches(desc, e, i, j) ==
    LET cell == e.grid[<<i, j>>]
    IN  /\ cell # 0
        /\ LET type == IF Objs[cell].type = "locked_door" THEN "door"
                       ELSE Objs[cell].type
               v  == <<i - e.start_pos[1], j - e.start_pos[2]>>
               d1 == DIR_TO_VEC[e.start_dir]
               d2 == <<-d1[2], d1[1]>>
           IN  /\ ~(desc.type # NoneVal /\ type # desc.type)
               /\ ~(desc.color # NoneVal /\ Objs[cell].color # desc.color)
               /\ (desc.loc \in {"left", "right", "front", "behind"}
                     => PosMatches(desc.loc, v, d1, d2))

\* The cells in the order of a double loop with j (y) outside and i (x) inside
ScanOrderRowFirst == [k \in 1..(GridW * GridH) |->
                        <<(k - 1) % GridW, (k - 1) \div GridW>>]

\* The cells in the order the double loop of find_matching_objs visits them:
\* i (x) in the outer loop, j (y) in the inner one
ScanOrder == [k \in 1..(GridW * GridH) |->
                <<(k - 1) \div GridH, (k - 1) % GridH>>]

\* find_matching_objs: the matching cells in scan order, appended to obj_poss,
\* and the objects in them, appended to obj_set
find_matching_objs(desc, e) ==
    LET IsMatch(c) == CellMatches(desc, e, c[1], c[2])
        poss == SelectSeq(ScanOrder, IsMatch)
    IN  [obj_set  |-> [k \in 1..Len(poss) |-> e.grid[poss[k]]],
         obj_poss |-> poss]

\* ------------------------------------------------------------ construction
ActionKinds == {"Open", "GoTo", "Pickup", "PutNext"}

IsInstance(x, kinds) == x.err = "" /\ x.kind \in kinds

Node(kind, descs, kids) ==
    [err |-> "", kind |-> kind, descs |-> descs, kids |-> kids]

Raise(e) == [err |-> e, kind |-> "", descs |-> <<>>, kids |-> <<>>]

DescOf(dr) == ObjDescInit(dr.type, dr.lit, dr.color, dr.loc)

OpenInit(d) ==
    IF Is(d.type, d.lit, "door") THEN Node("Open", <<d>>, <<>>)
    ELSE Raise("AssertionError")

GoToInit(d) == Node("GoTo", <<d>>, <<>>)

PickupInit(d) ==
    IF ~Is(d.type, d.lit, "door") THEN Node("Pickup", <<d>>, <<>>)
    ELSE Raise("AssertionError")

PutNextInit(dm, df) ==
    IF ~Is(dm.type, dm.lit, "door") THEN Node("PutNext", <<dm, df>>, <<>>)
    ELSE Raise("AssertionError")

\* Then.__init__ checking only that its children are instructions
ThenInitAnyInstr(a, b) ==
    IF /\ IsInstance(a, ActionKinds \cup {"Both", "Then", "After"})
       /\ IsInstance(b, ActionKinds \cup {"Both", "Then", "After"})
    THEN Node("Then", <<>>, <<a, b>>)
    ELSE Raise("AssertionError")

ThenInit(a, b) ==
    IF /\ IsInstance(a, ActionKinds \cup {"Both"})
       /\ IsInstance(b, ActionKinds \cup {"Both"})
    THEN Node("Then", <<>>, <<a, b>>)
    ELSE Raise("AssertionError")

AfterInit(a, b) ==
    IF /\ IsInstance(a, ActionKinds \cup {"Both"})
       /\ IsInstance(b, ActionKinds \cup {"Both"})
    THEN Node("After", <<>>, <<a, b>>)
    ELSE Raise("AssertionError")

\* Both.__init__(self) takes no argument besides self
BothInit(args) ==
    IF Len(args) = 0 THEN Node("Both", <<>>, <<>>)
    ELSE Raise("TypeError")

\* First error among the already evaluated arguments, "" when none
FirstErr(xs) ==
    IF \E k \in 1..Len(xs) : xs[k].err # ""
    THEN xs[CHOOSE k \in 1..Len(xs) :
               xs[k].err # "" /\ \A m \in 1..(k - 1) : xs[m].err = ""].err
    ELSE ""

\* Evaluation of a constructor expression: arguments first, left to right
RECURSIVE Build(_)
Build(r) ==
    IF r.kind \in {"GoTo", "Open", "Pickup", "PutNext"}
    THEN LET ds == [k \in 1..Len(r.args) |-> DescOf(r.args[k])]
         IN  IF FirstErr(ds) # "" THEN Raise(FirstErr(ds))
             ELSE CASE r.kind = "GoTo"   -> GoToInit(ds[1])
                    [] r.kind = "Open"   -> OpenInit(ds[1])
                    [] r.kind = "Pickup" -> PickupInit(ds[1])
                    [] OTHER             -> PutNextInit(ds[1], ds[2])
    ELSE LET ks == [k \in 1..Len(r.args) |-> Build(r.args[k])]
         IN  IF FirstErr(ks) # "" THEN Raise(FirstErr(ks))
             ELSE CASE r.kind = "Then"  -> ThenInit(ks[1], ks[2])
                    [] r.kind = "After" -> AfterInit(ks[1], ks[2])
                    [] OTHER            -> BothInit(ks)

\* All descriptions of a tree, in order: a node's own, then its children's
RECURSIVE AllDescs(_)
AllDescs(n) ==
    n.descs \o (IF Len(n.kids) = 0 THEN <<>>
                ELSE AllDescs(n.kids[1]) \o AllDescs(n.kids[2]))

\* ---------------------------------------------------------------- requests
\* Arguments of ObjDesc, the type given as a literal
DR(t, c, l) == [type |-> t, lit |-> TRUE, color |-> c, loc |-> l]

\* Arguments of ObjDesc, the type a string built at run time
DRrt(t, c, l) == [type |-> t, lit |-> FALSE, color |-> c, loc |-> l]

Leaf(kind, d) == [kind |-> kind, args |-> <<d>>]

\* The constructor expressions the driver may evaluate
Requests ==
    { Leaf("GoTo",   DR("ball", "blue", NoneVal)),
      Leaf("GoTo",   DR("door", "red", "front")),
      Leaf("GoTo",   DR("wall", NoneVal, NoneVal)),
      Leaf("Open",   DR("door", "red", NoneVal)),
      Leaf("Open",   DR("locked_door", NoneVal, "left")),
      Leaf("Open",   DR("door", "blue", NoneVal)),
      Leaf("Open",   DR("ball", "blue", NoneVal)),
      Leaf("Pickup", DR("ball", "blue", NoneVal)),
      Leaf("Pickup", DR("ball", "blue", "left")),
      Leaf("Pickup", DR("locked_door", "red", NoneVal)),
      Leaf("Open",   DRrt("door", "red", NoneVal)),
      Leaf("Pickup", DRrt("door", "red", NoneVal)),
      Leaf("GoTo",   DRrt("locked_door", NoneVal, NoneVal)),
      [kind |-> "PutNext", args |-> <<DR("ball", "blue", NoneVal),
                                      DR("door", "red", NoneVal)>>],
      [kind |-> "PutNext", args |-> <<DR("door", "red", NoneVal),
                                      DR("ball", "blue", NoneVal)>>],
      [kind |-> "Then",  args |-> <<Leaf("GoTo", DR("ball", "blue", NoneVal)),
                                    Leaf("Open", DR("door", "red", NoneVal))>>],
      [kind |-> "Then",  args |-> <<[kind |-> "Both", args |-> <<>>],
                                    [kind |-> "After", args |->
                                       <<Leaf("GoTo", DR("ball", "blue", NoneVal)),
                                         Leaf("Open", DR("door", "red", NoneVal))>>]>>],
      [kind |-> "Then",  args |-> <<[kind |-> "Both", args |-> <<>>],
                                    Leaf("GoTo", DR("ball", "blue", NoneVal))>>],
      [kind |-> "After", args |-> <<Leaf("Open", DR("door", "red", NoneVal)),
                                    Leaf("GoTo", DR("door", "red", NoneVal))>>],
      [kind |-> "After", args |-> <<[kind |-> "Then", args |->
                                       <<Leaf("GoTo", DR("ball", "blue", NoneVal)),
                                         Leaf("Open", DR("door", "red", NoneVal))>>],
                                    Leaf("GoTo", DR("door", "red", NoneVal))>>],
      [kind |-> "Both",  args |-> <<[kind |-> "Then", args |->
                                       <<Leaf("GoTo", DR("ball", "blue", NoneVal)),
                                         Leaf("Open", DR("door", "red", NoneVal))>>],
                                    Leaf("GoTo", DR("door", "red", NoneVal))>>],
      [kind |-> "Both",  args |-> <<>>],
      [kind |-> "Both",  args |-> <<Leaf("GoTo", DR("ball", "blue", NoneVal)),
                                    Leaf("Open", DR("door", "red", NoneVal))>>] }

\* ------------------------------------------------------------------- state
VARIABLES
    env,        \* the world: grid, is_open, start_pos, start_dir,
                \*            agent_pos, agent_dir, carrying
    phase,      \* the driver's position in the episode; "verified" is the
                \* state in which a verify call has just returned a verdict
    req,        \* the constructor expression the driver evaluates
    instr,      \* the instruction tree, or the error its construction raised
    env_set,    \* the nodes ("root", "a", "b") whose self.env is set
    obj_set,    \* per description of the tree: its obj_set
    obj_poss,   \* per description of the tree: its obj_poss
    resolved,   \* the descriptions find_matching_objs has run on
    result,     \* what the last verify call returned or raised
    surf,       \* what the last surface call returned or raised
    steps,      \* world steps taken in the episode
    bind_match, \* history: every description resolved at episode start
    sat_ever,   \* history: children whose own verify has succeeded so far
    goal,       \* history: whether a composite's goal is met "now" (first
                \*          at the last verify), in the "past", or "no"
    disorder    \* history: the child due second succeeded at a verify at
                \*          which the child due first had not yet succeeded

vars == <<env, phase, req, instr, env_set, obj_set, obj_poss, resolved,
          result, surf, steps, bind_match, sat_ever, goal, disorder>>

world == env

cache == <<obj_set, obj_poss, resolved>>

hist == <<bind_match, sat_ever, goal, disorder>>

NSlots == Len(AllDescs(instr))

TypeOK ==
    /\ phase \in {"init", "failed", "built", "bound", "stepped", "verified",
                  "raised"}
    /\ env.agent_pos \in Cells
    /\ env.start_pos \in Cells
    /\ env.carrying \in 0..Len(Objs)
    /\ steps \in 0..MaxSteps

Init ==
    /\ \E p \in {c \in Cells : StartGrid[c] = 0}, d \in 0..3 :
         env = [grid |-> StartGrid,
                is_open |-> [o \in ObjIds |-> FALSE],
                start_pos |-> p, start_dir |-> d,
                agent_pos |-> p, agent_dir |-> d,
                carrying |-> 0]
    /\ phase = "init"
    /\ req \in Requests
    /\ instr = Raise("unbuilt")
    /\ env_set = {}
    /\ obj_set = <<>>
    /\ obj_poss = <<>>
    /\ resolved = {}
    /\ result = "none"
    /\ surf = "none"
    /\ steps = 0
    /\ bind_match = <<>>
    /\ sat_ever = {}
    /\ goal = "no"
    /\ disorder = FALSE

\* The driver builds the instruction tree
Construct ==
    /\ phase = "init"
    /\ instr' = Build(req)
    /\ phase' = IF Build(req).err = "" THEN "built" ELSE "failed"
    /\ obj_set' = [s \in 1..Len(AllDescs(Build(req))) |-> <<>>]
    /\ obj_poss' = [s \in 1..Len(AllDescs(Build(req))) |-> <<>>]
    /\ UNCHANGED <<env, req, env_set, resolved, result, surf, steps, hist>>

\* --------------------------------------------------------------- reset_verifier
LeafKinds == {"Open", "GoTo", "Pickup"}

\* The descriptions (numbered as in AllDescs) that reset_verifier on node n
\* resolves; off is the number of descriptions before n's
RECURSIVE ResetSlots(_, _)
ResetSlots(n, off) ==
    CASE n.kind \in LeafKinds -> {off + 1}
      [] n.kind = "Then" ->
           ResetSlots(n.kids[1], off)
             \cup ResetSlots(n.kids[2], off + Len(AllDescs(n.kids[1])))
      [] OTHER -> {}

\* The nodes whose env reset_verifier on the root sets
ResetNodes(n) ==
    IF n.kind = "Then" THEN {"root", "a", "b"} ELSE {"root"}

ResetVerifier ==
    /\ phase = "built"
    /\ env_set' = ResetNodes(instr)
    /\ LET rs == ResetSlots(instr, 0)
           m(s) == find_matching_objs(AllDescs(instr)[s], env)
       IN  /\ obj_set' = [s \in 1..NSlots |->
                            IF s \in rs THEN m(s).obj_set ELSE obj_set[s]]
           /\ obj_poss' = [s \in 1..NSlots |->
                            IF s \in rs THEN m(s).obj_poss ELSE obj_poss[s]]
           /\ resolved' = resolved \cup rs
    /\ bind_match' = [s \in 1..NSlots |->
                        find_matching_objs(AllDescs(instr)[s], env)]
    /\ phase' = "bound"
    /\ UNCHANGED <<env, req, instr, result, surf, steps, sat_ever, goal,
                   disorder>>

\* ----------------------------------------------------------------- surface
\* The text of ObjDesc.surface with 'a' for one object already
DescSurfaceIndefiniteForOne(desc, n) ==
    LET s1 == IF desc.color # NoneVal THEN desc.color \o " " \o desc.type
              ELSE desc.type
        s2 == IF desc.loc = NoneVal THEN s1
              ELSE IF desc.loc = "front" THEN s1 \o " in front of you"
              ELSE IF desc.loc = "behind" THEN s1 \o " behind you"
              ELSE s1 \o " on your " \o desc.loc
    IN  IF n >= 1 THEN "a " \o s2 ELSE "the " \o s2

\* ObjDesc.surface after its find_matching_objs found n objects (n > 0)
DescSurface(desc, n) ==
    LET s1 == IF desc.color # NoneVal THEN desc.color \o " " \o desc.type
              ELSE desc.type
        s2 == IF desc.loc = NoneVal THEN s1
              ELSE IF desc.loc = "front" THEN s1 \o " in front of you"
              ELSE IF desc.loc = "behind" THEN s1 \o " behind you"
              ELSE s1 \o " on your " \o desc.loc
    IN  IF n > 1 THEN "a " \o s2 ELSE "the " \o s2

\* ObjDesc.surface without its assertion
ObjDescSurfaceNoAssert(desc, e) ==
    [err |-> "",
     text |-> DescSurface(desc, Len(find_matching_objs(desc, e).obj_set))]

\* ObjDesc.surface(env): resolve, fail when nothing matches, else the text
ObjDescSurface(desc, e) ==
    LET m == find_matching_objs(desc, e)
    IN  IF Len(m.obj_set) > 0
        THEN [err |-> "", text |-> DescSurface(desc, Len(m.obj_set))]
        ELSE [err |-> "AssertionError", text |-> ""]

LeafPrefix(kind) ==
    CASE kind = "Open" -> "open "
      [] kind = "GoTo" -> "go to "
      [] OTHER         -> "pick up "

\* surface(env) on node n, whose descriptions are numbered from off + 1:
\* the text or the error raised, and the descriptions it resolved on the way
RECURSIVE SurfaceOf(_, _, _)
SurfaceOf(n, off, e) ==
    CASE n.kind \in LeafKinds ->
           LET d == ObjDescSurface(n.descs[1], e)
           IN  IF d.err = ""
               THEN [err |-> "", slots |-> {off + 1},
                     text |-> LeafPrefix(n.kind) \o d.text]
               ELSE [err |-> d.err, slots |-> {off + 1}, text |-> ""]
      [] n.kind \in {"Then", "After"} ->
           LET a == SurfaceOf(n.kids[1], off, e)
               b == SurfaceOf(n.kids[2], off + Len(AllDescs(n.kids[1])), e)
           IN  IF a.err # "" THEN a
               ELSE IF b.err # ""
                    THEN [b EXCEPT !.slots = a.slots \cup b.slots]
                    ELSE [err |-> "", slots |-> a.slots \cup b.slots,
                          text |-> a.text \o " then " \o b.text]
      [] OTHER -> [err |-> "NotImplementedError", slots |-> {}, text |-> ""]

\* surface whose resolution appends to the lists of the previous one
SurfaceAppending ==
    /\ phase \in {"built", "bound", "verified"}
    /\ LET r == SurfaceOf(instr, 0, env)
           m(s) == find_matching_objs(AllDescs(instr)[s], env)
       IN  /\ surf' = IF r.err # "" THEN r.err ELSE r.text
           /\ phase' = IF r.err # "" THEN "raised"
                       ELSE IF phase = "verified" THEN "bound" ELSE phase
           /\ obj_set' = [s \in 1..NSlots |->
                            IF s \in r.slots THEN obj_set[s] \o m(s).obj_set
                            ELSE obj_set[s]]
           /\ obj_poss' = [s \in 1..NSlots |->
                            IF s \in r.slots THEN obj_poss[s] \o m(s).obj_poss
                            ELSE obj_poss[s]]
           /\ resolved' = resolved \cup r.slots
    /\ UNCHANGED <<env, req, instr, env_set, result, steps, hist>>

Surface ==
    /\ phase \in {"built", "bound", "verified"}
    /\ LET r == SurfaceOf(instr, 0, env)
           m(s) == find_matching_objs(AllDescs(instr)[s], env)
       IN  /\ surf' = IF r.err # "" THEN r.err ELSE r.text
           /\ phase' = IF r.err # "" THEN "raised"
                       ELSE IF phase = "verified" THEN "bound" ELSE phase
           /\ obj_set' = [s \in 1..NSlots |->
                            IF s \in r.slots THEN m(s).obj_set ELSE obj_set[s]]
           /\ obj_poss' = [s \in 1..NSlots |->
                            IF s \in r.slots THEN m(s).obj_poss ELSE obj_poss[s]]
           /\ resolved' = resolved \cup r.slots
    /\ UNCHANGED <<env, req, instr, env_set, result, steps, hist>>

\* ------------------------------------------------------------- world steps
\* One action of the agent in the grid world; the driver calls verify after it
CanStep == phase \in {"bound", "verified"} /\ steps < MaxSteps

Stepped(e) ==
    /\ env' = e
    /\ phase' = "stepped"
    /\ steps' = steps + 1
    /\ UNCHANGED <<req, instr, env_set, cache, result, surf, hist>>

TurnLeft ==
    /\ CanStep
    /\ Stepped([env EXCEPT !.agent_dir = (env.agent_dir + 3) % 4])

TurnRight ==
    /\ CanStep
    /\ Stepped([env EXCEPT !.agent_dir = (env.agent_dir + 1) % 4])

Forward ==
    /\ CanStep
    /\ FrontPos(env) \in Cells
    /\ IF env.grid[FrontPos(env)] = 0 THEN TRUE
       ELSE env.is_open[env.grid[FrontPos(env)]]
    /\ Stepped([env EXCEPT !.agent_pos = FrontPos(env)])

PickUpObj ==
    /\ CanStep
    /\ FrontPos(env) \in Cells
    /\ env.grid[FrontPos(env)] # 0
    /\ Objs[env.grid[FrontPos(env)]].type \in {"ball", "box", "key"}
    /\ env.carrying = 0
    /\ Stepped([env EXCEPT !.carrying = env.grid[FrontPos(env)],
                           !.grid[FrontPos(env)] = 0])

DropObj ==
    /\ CanStep
    /\ FrontPos(env) \in Cells
    /\ env.grid[FrontPos(env)] = 0
    /\ env.carrying # 0
    /\ Stepped([env EXCEPT !.grid[FrontPos(env)] = env.carrying,
                           !.carrying = 0])

Toggle ==
    /\ CanStep
    /\ FrontPos(env) \in Cells
    /\ env.grid[FrontPos(env)] # 0
    /\ Objs[env.grid[FrontPos(env)]].type = "door"
    /\ Stepped([env EXCEPT !.is_open[env.grid[FrontPos(env)]] =
                              ~env.is_open[env.grid[FrontPos(env)]]])

\* An action that leaves the world as it is (done, or a blocked move)
Done ==
    /\ CanStep
    /\ Stepped(env)

\* ------------------------------------------------------------------ verify
\* Mutant of OpenVerify: the loop returns on the first door, open or not
OpenVerifyFirstDoorOnly(set, e) ==
    IF Len(set) > 0 /\ e.is_open[set[1]] THEN "success" ELSE "continue"

OpenVerify(set, e) ==
    IF \E k \in 1..Len(set) : e.is_open[set[k]] THEN "success" ELSE "continue"

\* Mutant of GoToVerify: the agent's own cell is compared, not front_pos
GoToVerifyAgentPos(poss, e) ==
    IF \E k \in 1..Len(poss) : poss[k] = e.agent_pos
    THEN "success" ELSE "continue"

GoToVerify(poss, e) ==
    IF \E k \in 1..Len(poss) : poss[k] = FrontPos(e)
    THEN "success" ELSE "continue"

\* Mutant of PickupVerify: the carried object is compared by type and
\* color (equality) instead of by identity
PickupVerifyByEquality(set, e) ==
    IF e.carrying # 0 /\ \E k \in 1..Len(set) : Objs[e.carrying] = Objs[set[k]]
    THEN "success" ELSE "continue"

PickupVerify(set, e) ==
    IF \E k \in 1..Len(set) : e.carrying = set[k]
    THEN "success" ELSE "continue"

ThenVerify == "continue"

\* Instr.verify, inherited by PutNext, After and Both
InstrVerify == "NotImplementedError"

\* History: child c's own verify, had the child been bound at episode start
ChildSat(c) ==
    LET kid == instr.kids[c]
        off == IF c = 1 THEN 0 ELSE Len(AllDescs(instr.kids[1]))
    IN  /\ kid.kind \in LeafKinds
        /\ "success" =
             CASE kid.kind = "Open" ->
                    OpenVerify(bind_match[off + 1].obj_set, env)
               [] kid.kind = "GoTo" ->
                    GoToVerify(bind_match[off + 1].obj_poss, env)
               [] OTHER ->
                    PickupVerify(bind_match[off + 1].obj_set, env)

\* History: the composite's goal, given the children satisfied so far (sat)
GoalMet(sat) ==
    CASE instr.kind = "Then"  -> 1 \in sat /\ ChildSat(2)
      [] instr.kind = "After" -> 2 \in sat /\ ChildSat(1)
      [] instr.kind = "Both"  -> \A c \in 1..Len(instr.kids) : c \in sat
      [] OTHER -> FALSE

\* History: the child due second is satisfied and the one due first is not
OutOfOrder(sat) ==
    CASE instr.kind = "Then"  -> 2 \in sat /\ 1 \notin sat
      [] instr.kind = "After" -> 1 \in sat /\ 2 \notin sat
      [] OTHER -> FALSE

\* A verify that takes the carried object out of the agent's hands
VerifiedDroppingCarried(r) ==
    /\ phase = "stepped"
    /\ result' = r
    /\ phase' = IF r \in {"success", "continue"} THEN "verified" ELSE "raised"
    /\ env' = [env EXCEPT !.carrying = 0]
    /\ LET sat == sat_ever \cup {c \in 1..Len(instr.kids) : ChildSat(c)}
       IN  /\ sat_ever' = sat
           /\ goal' = IF goal # "no" THEN "past"
                      ELSE IF GoalMet(sat) THEN "now" ELSE "no"
           /\ disorder' = (disorder \/ OutOfOrder(sat))
    /\ UNCHANGED <<req, instr, env_set, cache, surf, steps, bind_match>>

\* A verify that resolves the already resolved descriptions again
VerifiedRefreshing(r) ==
    /\ phase = "stepped"
    /\ result' = r
    /\ phase' = IF r \in {"success", "continue"} THEN "verified" ELSE "raised"
    /\ LET m(s) == find_matching_objs(AllDescs(instr)[s], env)
       IN  /\ obj_set' = [s \in 1..NSlots |->
                            IF s \in resolved THEN m(s).obj_set ELSE obj_set[s]]
           /\ obj_poss' = [s \in 1..NSlots |->
                            IF s \in resolved THEN m(s).obj_poss
                            ELSE obj_poss[s]]
    /\ LET sat == sat_ever \cup {c \in 1..Len(instr.kids) : ChildSat(c)}
       IN  /\ sat_ever' = sat
           /\ goal' = IF goal # "no" THEN "past"
                      ELSE IF GoalMet(sat) THEN "now" ELSE "no"
           /\ disorder' = (disorder \/ OutOfOrder(sat))
    /\ UNCHANGED <<env, req, instr, env_set, resolved, surf, steps, bind_match>>

Verified(r) ==
    /\ phase = "stepped"
    /\ result' = r
    /\ phase' = IF r \in {"success", "continue"} THEN "verified" ELSE "raised"
    /\ LET sat == sat_ever \cup {c \in 1..Len(instr.kids) : ChildSat(c)}
       IN  /\ sat_ever' = sat
           /\ goal' = IF goal # "no" THEN "past"
                      ELSE IF GoalMet(sat) THEN "now" ELSE "no"
           /\ disorder' = (disorder \/ OutOfOrder(sat))
    /\ UNCHANGED <<env, req, instr, env_set, cache, surf, steps, bind_match>>

VerifyOpen ==
    /\ instr.kind = "Open"
    /\ Verified(OpenVerify(obj_set[1], env))

VerifyGoTo ==
    /\ instr.kind = "GoTo"
    /\ Verified(GoToVerify(obj_poss[1], env))

VerifyPickup ==
    /\ instr.kind = "Pickup"
    /\ Verified(PickupVerify(obj_set[1], env))

VerifyPutNext ==
    /\ instr.kind = "PutNext"
    /\ Verified(InstrVerify)

VerifyThen ==
    /\ instr.kind = "Then"
    /\ Verified(ThenVerify)

VerifyAfter ==
    /\ instr.kind = "After"
    /\ Verified(InstrVerify)

VerifyBoth ==
    /\ instr.kind = "Both"
    /\ Verified(InstrVerify)

\* ------------------------------------------------------------ specification
Next ==
    \/ Construct
    \/ ResetVerifier
    \/ Surface
    \/ TurnLeft
    \/ TurnRight
    \/ Forward
    \/ PickUpObj
    \/ DropObj
    \/ Toggle
    \/ Done
    \/ VerifyOpen
    \/ VerifyGoTo
    \/ VerifyPickup
    \/ VerifyPutNext
    \/ VerifyThen
    \/ VerifyAfter
    \/ VerifyBoth

Spec == Init /\ [][Next]_vars

\* ------------------------------------------------------------------ claims
\* A verify call was the instruction's last verify and the world has not
\* moved since: result and goal are those of that call
AfterVerify == phase \in {"verified", "raised"} /\ result # "none"

\* C1: Then(a, b) is satisfied when a has been satisfied at some step and, at
\* or after that step, b becomes satisfied: at the first verify at which b's
\* verify succeeds with a's having succeeded then or earlier, Then.verify
\* returns 'success'.  (Stated for the runs in which b was never satisfied
\* ahead of a, where every reading of the sequencing agrees.)
C1_ThenSucceedsWhenAThenB ==
    (instr.kind = "Then" /\ AfterVerify /\ goal = "now" /\ ~disorder)
      => result = "success"

\* C2: Both(a, b) can be built and bound, and Both.verify returns 'success'
\* once each child has been satisfied at some step, in either order, and
\* never while a child has not yet been satisfied.
C2_BothSucceedsOnceBothSatisfied ==
    /\ (req.kind = "Both" /\ phase # "init") => instr.err = ""
    /\ (instr.kind = "Both" /\ AfterVerify)
         => (result = "success" <=> goal # "no")

\* C3: After(a, b).verify returns 'success' at a step only if b was satisfied
\* at that step or earlier and a is satisfied at or after it, and it does
\* return 'success' at the first step where that happens.
C3_AfterSucceedsWhenBThenA ==
    (instr.kind = "After" /\ AfterVerify)
      => /\ (goal = "now" /\ ~disorder => result = "success")
         /\ (result = "success" => goal # "no")

\* The positions at which an object matching desc stands in world e now
CurrentPoss(desc, e) ==
    {c \in Cells : CellMatches(desc, e, c[1], c[2])}

C5_OpenIffSomeMatchedDoorOpen ==
    (instr.kind = "Open" /\ phase = "verified")
      => /\ result \in {"success", "continue"}
         /\ result = "success"
              <=> (\E o \in {obj_set[1][k] : k \in 1..Len(obj_set[1])} :
                     env.is_open[o])

\* C5 witness: two matched doors, one open and one closed, and success
C5_Witness ==
    /\ instr.kind = "Open" /\ phase = "verified" /\ result = "success"
    /\ Len(obj_set[1]) = 2
    /\ \E k \in 1..2 : ~env.is_open[obj_set[1][k]]

\* C6: once Open.verify has returned 'success', no later verify of the
\* episode returns 'continue', whatever the world does.
C6_OpenNeverReverts ==
    [][(instr.kind = "Open" /\ result = "success") => result' = "success"]_vars

\* C7: Pickup.verify returns 'success' if and only if the carried object is,
\* by identity, one of the objects of the match set; carrying another object
\* of the same type and color, or nothing, gives 'continue'.
C7_PickupIffCarriedIsMatched ==
    (instr.kind = "Pickup" /\ phase = "verified")
      => /\ result \in {"success", "continue"}
         /\ result = "success"
              <=> env.carrying \in {obj_set[1][k] : k \in 1..Len(obj_set[1])}

\* C7 witness: the agent carries an object that looks like a matched one but
\* is not in the match set, and verify returned 'continue'
C7_Witness ==
    /\ instr.kind = "Pickup" /\ phase = "verified" /\ result = "continue"
    /\ env.carrying # 0
    /\ \A k \in 1..Len(obj_set[1]) : obj_set[1][k] # env.carrying
    /\ \E k \in 1..Len(obj_set[1]) : Objs[obj_set[1][k]] = Objs[env.carrying]

\* The intended goal of PutNext: an object matching the move description
\* stands 4-adjacent to one matching the fixed description (an object on the
\* grid is not carried)
PutNextGoal ==
    \E c1 \in CurrentPoss(instr.descs[1], env),
       c2 \in CurrentPoss(instr.descs[2], env) :
         (IF c1[1] > c2[1] THEN c1[1] - c2[1] ELSE c2[1] - c1[1])
           + (IF c1[2] > c2[2] THEN c1[2] - c2[2] ELSE c2[2] - c1[2]) = 1

\* C8: PutNext.verify returns 'success' exactly when a moved object stands
\* 4-adjacent to a fixed one and is not carried, and 'continue' otherwise.
C8_PutNextVerifiesAdjacency ==
    (instr.kind = "PutNext" /\ AfterVerify)
      => /\ result \in {"success", "continue"}
         /\ result = "success" <=> PutNextGoal

\* The states in which the driver may run a resolution next (reset_verifier
\* or surface)
CanResolve == phase \in {"built", "bound", "verified"}

\* Projections of the offset of cell c from the episode-start position on
\* the episode-start facing vector d1 and on its perpendicular d2
ProjD1(c, e) ==
    dot_product(<<c[1] - e.start_pos[1], c[2] - e.start_pos[2]>>,
                DIR_TO_VEC[e.start_dir])

ProjD2(c, e) ==
    dot_product(<<c[1] - e.start_pos[1], c[2] - e.start_pos[2]>>,
                <<-DIR_TO_VEC[e.start_dir][2], DIR_TO_VEC[e.start_dir][1]>>)

\* The cells of the objects of type t that find_matching_objs finds under
\* location loc (any color)
LocCells(t, loc, e) ==
    LET m == find_matching_objs(ObjDescInit(t, TRUE, NoneVal, loc), e)
    IN  {m.obj_poss[k] : k \in 1..Len(m.obj_poss)}

\* C9: an object cell with non-zero projection on d2 matches exactly one of
\* left and right, one with non-zero projection on d1 exactly one of front
\* and behind; a cell with zero projection on d2 matches neither left nor
\* right, one with zero projection on d1 neither front nor behind.
C9_DirectionalPartition ==
    CanResolve =>
    \A t \in {"door", "ball"} :
      LET left   == LocCells(t, "left", env)
          right  == LocCells(t, "right", env)
          front  == LocCells(t, "front", env)
          behind == LocCells(t, "behind", env)
      IN  \A c \in LocCells(t, NoneVal, env) :
            /\ ProjD2(c, env) # 0 => (c \in left <=> c \notin right)
            /\ ProjD1(c, env) # 0 => (c \in front <=> c \notin behind)
            /\ ProjD2(c, env) = 0 => (c \notin left /\ c \notin right)
            /\ ProjD1(c, env) = 0 => (c \notin front /\ c \notin behind)

\* C9 witness: a resolved description with a location whose match set has an
\* object off both axes, and an object on an axis is on the grid too
C9_Witness ==
    /\ 1 \in resolved
    /\ AllDescs(instr)[1].loc = "left"
    /\ \E k \in 1..Len(obj_poss[1]) :
         /\ ProjD1(obj_poss[1][k], env) # 0
         /\ ProjD2(obj_poss[1][k], env) # 0
         /\ env.grid[obj_poss[1][k]] # 0
    /\ \E c \in Cells : env.grid[c] # 0 /\ ProjD2(c, env) = 0

\* The worlds that differ from e in the agent's current position, facing
\* (hence front_pos) or carried object only
AgentVariants(e) ==
    {[e EXCEPT !.agent_pos = p] : p \in Cells}
      \cup {[e EXCEPT !.agent_dir = d] : d \in 0..3}
      \cup {[e EXCEPT !.carrying = o] : o \in 0..Len(Objs)}

\* C10: find_matching_objs gives the same ordered match set in two worlds
\* with the same grid, start_pos and start_dir, whatever the agent's current
\* position, facing or carried object: in every state that reset_verifier or
\* surface has just produced (at bind time and at later steps), and between
\* bind time and any later step at which the grid is as it was.
C10_ResolutionIgnoresAgentState ==
    \A s \in 1..NSlots :
      /\ phase = "bound"
           => \A e2 \in AgentVariants(env) :
                find_matching_objs(AllDescs(instr)[s], e2)
                  = find_matching_objs(AllDescs(instr)[s], env)
      /\ (CanResolve /\ s \in DOMAIN bind_match /\ env.grid = StartGrid)
           => find_matching_objs(AllDescs(instr)[s], env) = bind_match[s]

\* C10 witness: the agent has left its start cell and turned, the grid is as
\* at bind time, and a description with a location has a non-empty match set
C10_Witness ==
    /\ phase = "verified"
    /\ env.grid = StartGrid
    /\ env.agent_pos # env.start_pos
    /\ env.agent_dir # env.start_dir
    /\ NSlots >= 1
    /\ AllDescs(instr)[1].loc # NoneVal
    /\ Len(bind_match[1].obj_set) > 0

\* The type a description is about, compared as a value
NormType(t) == IF t = "locked_door" THEN "door" ELSE t

\* The descriptions of the requested leaf can all be constructed
DescsConstruct ==
    \A k \in 1..Len(req.args) : DescOf(req.args[k]).err = ""

\* C11: once a leaf constructor has been evaluated on descriptions that
\* exist, Open has built an instruction exactly when the description's type
\* is door, Pickup and PutNext exactly when the moved description's type is
\* not door, GoTo always; and a rejected constructor leaves nothing that is
\* bound or verified.
C11_IncompatibleTypeRejected ==
    (phase # "init" /\ req.kind \in ActionKinds /\ DescsConstruct) =>
        LET t  == NormType(req.args[1].type)
            ok == CASE req.kind = "Open" -> t = "door"
                    [] req.kind \in {"Pickup", "PutNext"} -> t # "door"
                    [] OTHER -> TRUE
        IN  /\ (instr.err = "") <=> ok
            /\ ~ok => (phase = "failed" /\ result = "none")

\* C12: a Then, After or Both given two children is built only when both
\* children are Action leaves or Both composites, and is rejected at
\* construction whenever one of the two children is a Then or an After.
C12_CompositeNesting ==
    (phase # "init" /\ req.kind \in {"Then", "After", "Both"}
       /\ Len(req.args) = 2) =>
        /\ instr.err = "" =>
              \A k \in 1..2 : req.args[k].kind \in ActionKinds \cup {"Both"}
        /\ (\E k \in 1..2 : req.args[k].kind \in {"Then", "After"}) =>
              (instr.err # "" /\ phase = "failed" /\ result = "none")

\* A Then whose second child is a well-formed After has been rejected, and
\* an After whose first child is a well-formed Then likewise
C12_Witness ==
    /\ phase = "failed"
    /\ req.kind \in {"Then", "After"}
    /\ \E k \in 1..2 : /\ req.args[k].kind \in {"Then", "After"}
                       /\ Build(req.args[k]).err = ""
    /\ instr.err = "AssertionError"

\* C13: every verify call on a constructed and bound instruction returns a
\* verdict, 'continue' or 'success', and never ends in an error.
C13_VerifyAlwaysReturnsVerdict ==
    AfterVerify => result \in {"continue", "success"}

\* A verify call on the root, whatever its variant
AnyVerify ==
    \/ VerifyOpen \/ VerifyGoTo \/ VerifyPickup \/ VerifyPutNext
    \/ VerifyThen \/ VerifyAfter \/ VerifyBoth

\* C14: reset_verifier, surface (and the find_matching_objs they run) and
\* verify leave the grid contents, the door open flags, the start position
\* and direction, the agent's position and direction, front_pos and the
\* carried object as they were, whether they return or raise.
C14_TreeNeverMutatesWorld ==
    [][(ResetVerifier \/ Surface \/ AnyVerify) =>
         /\ env'.grid = env.grid
         /\ env'.is_open = env.is_open
         /\ env'.start_pos = env.start_pos
         /\ env'.start_dir = env.start_dir
         /\ env'.agent_pos = env.agent_pos
         /\ env'.agent_dir = env.agent_dir
         /\ FrontPos(env') = FrontPos(env)
         /\ env'.carrying = env.carrying]_vars

\* reset_verifier, surface and verify have all been called, the last one
\* while the agent carries an object and a door is open
C14_Witness ==
    /\ phase = "verified"
    /\ surf # "none"
    /\ env.carrying # 0
    /\ \E o \in ObjIds : env.is_open[o]

\* C19: the lists obj_set and obj_poss of the descriptions of a constructed
\* tree change only in a step that is a reset_verifier or a surface call;
\* no verify call and no step of the world changes them, so a moved object
\* stays recorded at the position of the last resolution.
C19_CacheChangesOnlyOnResolution ==
    [][(phase # "init" /\ (obj_set' # obj_set \/ obj_poss' # obj_poss))
         => (ResetVerifier \/ Surface)]_vars

\* GoTo.verify has just returned 'success' on a recorded position whose
\* object is no longer there
C19_Witness ==
    /\ phase = "verified"
    /\ instr.kind = "GoTo"
    /\ result = "success"
    /\ \E k \in 1..Len(obj_poss[1]) :
         /\ obj_poss[1][k] = FrontPos(env)
         /\ env.grid[obj_poss[1][k]] # obj_set[1][k]

\* The last call on the tree was surface, or nothing has moved since it
JustSurfaced ==
    /\ surf # "none"
    /\ \/ phase \in {"built", "bound"}
       \/ phase = "raised" /\ surf \in {"AssertionError", "NotImplementedError"}

\* C15: surface on a leaf whose description matches no object of the world
\* fails with an assertion error and gives no text; when at least one
\* object matches it gives a text.
C15_SurfaceFailsOnZeroMatches ==
    (JustSurfaced /\ instr.kind \in LeafKinds) =>
        LET n == Cardinality(CurrentPoss(instr.descs[1], env))
        IN  /\ n = 0 => (surf = "AssertionError" /\ phase = "raised")
            /\ n >= 1 => surf \notin {"AssertionError", "NotImplementedError"}

\* surface has failed on a description that matched an object when the
\* instruction was bound and matches none now
C15_Witness ==
    /\ phase = "raised"
    /\ instr.kind \in LeafKinds
    /\ surf = "AssertionError"
    /\ 1 \in DOMAIN bind_match
    /\ Len(bind_match[1].obj_set) > 0
    /\ CurrentPoss(instr.descs[1], env) = {}

\* '[color ]type[ location-phrase]' of a description
Phrase(desc) ==
    (IF desc.color = NoneVal THEN "" ELSE desc.color \o " ")
      \o desc.type
      \o (CASE desc.loc = "front"  -> " in front of you"
            [] desc.loc = "behind" -> " behind you"
            [] desc.loc = "left"   -> " on your left"
            [] desc.loc = "right"  -> " on your right"
            [] OTHER               -> "")

\* C16: the text of a description is '[color ]type[ location-phrase]' after
\* 'the ' when exactly one object matches and after 'a ' when more than one
\* does; (ball, blue, left) reads 'the blue ball on your left' for one match
\* and 'a blue ball on your left' for several.
C16_SurfaceArticleAndPhrase ==
    (JustSurfaced /\ instr.kind \in LeafKinds
       /\ surf \notin {"AssertionError", "NotImplementedError"}) =>
        LET d == instr.descs[1]
            n == Cardinality(CurrentPoss(d, env))
        IN  /\ n = 1 => surf = LeafPrefix(instr.kind) \o "the " \o Phrase(d)
            /\ n > 1 => surf = LeafPrefix(instr.kind) \o "a " \o Phrase(d)
            /\ (instr.kind = "Pickup" /\ d.type = "ball" /\ d.color = "blue"
                  /\ d.loc = "left") =>
                  surf = IF n = 1 THEN "pick up the blue ball on your left"
                         ELSE "pick up a blue ball on your left"

\* Two balls were on the left when the instruction was bound, one has been
\* picked up since, and the text now has the definite article
C16_Witness ==
    /\ JustSurfaced
    /\ instr.kind = "Pickup"
    /\ 1 \in DOMAIN bind_match
    /\ Len(bind_match[1].obj_set) = 2
    /\ surf = "pick up the blue ball on your left"

\* The cached lists are those of a resolution run in the present world:
\* surface or reset_verifier has just returned, or nothing has moved since
FreshlyResolved == phase \in {"built", "bound"}

\* Cell c of world e holds an object that description d is about: same type
\* once locked_door is read as door, same color when d sets one, and on the
\* side d names (seen from the agent's start position and facing direction)
\* when d sets one
Describes(d, c, e) ==
    /\ e.grid[c] # 0
    /\ NormType(Objs[e.grid[c]].type) = d.type
    /\ d.color = NoneVal \/ Objs[e.grid[c]].color = d.color
    /\ CASE d.loc = "left"   -> ProjD2(c, e) < 0
         [] d.loc = "right"  -> ProjD2(c, e) > 0
         [] d.loc = "front"  -> ProjD1(c, e) > 0
         [] d.loc = "behind" -> ProjD1(c, e) < 0
         [] OTHER            -> TRUE

\* C17: a resolution records exactly the occupied cells whose object the
\* description is about and no other cell, each once, by increasing x and,
\* for equal x, increasing y, with the object standing in each of them.
C17_ResolutionSelectsExactlyMatches ==
    FreshlyResolved =>
        \A s \in resolved :
            LET d == AllDescs(instr)[s]
                P == obj_poss[s]
            IN  /\ {P[k] : k \in 1..Len(P)}
                     = {c \in Cells : Describes(d, c, env)}
                /\ \A k \in 1..(Len(P) - 1) :
                      \/ P[k][1] < P[k + 1][1]
                      \/ P[k][1] = P[k + 1][1] /\ P[k][2] < P[k + 1][2]
                /\ Len(obj_set[s]) = Len(P)
                /\ \A k \in 1..Len(P) : obj_set[s][k] = env.grid[P[k]]

\* A resolution has recorded two cells of which the first has the smaller x
\* and the larger y, one of them holding a locked door
C17_Witness ==
    /\ FreshlyResolved
    /\ \E s \in resolved :
         /\ Len(obj_poss[s]) = 2
         /\ obj_poss[s][1][1] < obj_poss[s][2][1]
         /\ obj_poss[s][1][2] > obj_poss[s][2][2]
         /\ \E k \in 1..2 : Objs[obj_set[s][k]].type = "locked_door"

\* C18: right after reset_verifier on the root of a tree, leaf or composite,
\* the root holds the world and every description of the tree holds the
\* lists that resolving it against the world at that moment gives.
C18_BindResolvesEveryDescription ==
    (phase = "bound" /\ steps = 0) =>
        /\ "root" \in env_set
        /\ \A s \in 1..NSlots :
              /\ s \in resolved
              /\ obj_set[s] = bind_match[s].obj_set
              /\ obj_poss[s] = bind_match[s].obj_poss

\* C20: obj_set and obj_poss of a description always have the same length,
\* and after a resolution obj_poss[k] is the cell in which that resolution
\* found obj_set[k], every matching cell is recorded once, and nothing of
\* an earlier resolution is left.
C20_SetAndPossAligned ==
    /\ \A s \in 1..Len(obj_set) : Len(obj_set[s]) = Len(obj_poss[s])
    /\ FreshlyResolved =>
          \A s \in resolved :
              /\ \A k \in 1..Len(obj_poss[s]) :
                    /\ obj_set[s][k] # 0
                    /\ env.grid[obj_poss[s][k]] = obj_set[s][k]
                    /\ obj_poss[s][k] \in CurrentPoss(AllDescs(instr)[s], env)
              /\ Len(obj_poss[s])
                   = Cardinality(CurrentPoss(AllDescs(instr)[s], env))
              /\ Cardinality({obj_poss[s][k] : k \in 1..Len(obj_poss[s])})
                   = Len(obj_poss[s])

\* A description resolved when the instruction was bound has been resolved
\* again after an object it matched was taken away
C20_Witness ==
    /\ phase = "bound"
    /\ steps > 0
    /\ \E s \in resolved :
         /\ Len(bind_match[s].obj_poss) > Len(obj_poss[s])
         /\ Len(obj_poss[s]) > 0

====
